---- MODULE Spec2Model ----
(***************************************************************************)
(* Model of the AI news widget of src/js/news-fetcher.js: the cache check, *)
(* the per-feed requests, normalization / sort / deduplication, the        *)
(* filter-search-paginate projection of displayNews and the article modal. *)
(*                                                                         *)
(* Text is a sequence of one-character strings, so that toLowerCase,       *)
(* includes, substring and the tag stripping of stripHTML are computed.    *)
(* A URL string is a record of its literal text and of what `new URL`      *)
(* makes of it (protocol "" when the constructor throws).                  *)
(***************************************************************************)
EXTENDS Integers, Sequences, FiniteSets, TLC

\* ------------------------------------------------------------------------
\* Program constants (news-fetcher.js lines 7-16)
\* ------------------------------------------------------------------------
CACHE_DURATION_MS == 3600000
DESCRIPTION_MAX_LENGTH == 150
NEWS_PER_PAGE == 9
RSS_FEEDS == <<"techcrunch", "venturebeat", "theverge">>
Feeds == 1..Len(RSS_FEEDS)
MS_PER_DAY == 1000 * 60 * 60 * 24

Categories == {"llm", "ml", "vision", "ethics"}
FilterButtons == {"all"} \cup Categories

\* ------------------------------------------------------------------------
\* Bounds of the model
\* ------------------------------------------------------------------------
MaxClock == 3600001
MaxItems == 1
MaxAggItems == 3
MaxFeedItems == 2
MaxArticles == 11
MaxWords == 2
MaxPage == 4
MaxStored == 25
MaxModalItems == 2

\* ------------------------------------------------------------------------
\* Text
\* ------------------------------------------------------------------------
UpperChars ==
    <<"A", "B", "C", "D", "E", "F", "G", "H", "I", "J", "K", "L", "M",
      "N", "O", "P", "Q", "R", "S", "T", "U", "V", "W", "X", "Y", "Z">>
LowerChars ==
    <<"a", "b", "c", "d", "e", "f", "g", "h", "i", "j", "k", "l", "m",
      "n", "o", "p", "q", "r", "s", "t", "u", "v", "w", "x", "y", "z">>

UpperToLower ==
    [c \in { UpperChars[i] : i \in 1..Len(UpperChars) } |->
        LowerChars[CHOOSE i \in 1..Len(UpperChars) : UpperChars[i] = c]]

LowerChar(c) == IF c \in DOMAIN UpperToLower THEN UpperToLower[c] ELSE c

\* String.prototype.toLowerCase
toLowerCase(s) == [i \in 1..Len(s) |-> LowerChar(s[i])]

\* String.prototype.includes
includes(s, k) ==
    \E i \in 0..(Len(s) - Len(k)) : \A j \in 1..Len(k) : s[i + j] = k[j]

\* String.prototype.substring(0, n)
substring(s, n) == SubSeq(s, 1, IF Len(s) < n THEN Len(s) ELSE n)

\* String.prototype.replace(k, ""): removes the first occurrence of k
replaceFirst(s, k) ==
    IF includes(s, k)
    THEN LET i == CHOOSE j \in 0..(Len(s) - Len(k)) :
                    /\ SubSeq(s, j + 1, j + Len(k)) = k
                    /\ \A h \in 0..(j - 1) : SubSeq(s, h + 1, h + Len(k)) # k
         IN  SubSeq(s, 1, i) \o SubSeq(s, i + Len(k) + 1, Len(s))
    ELSE s

\* The character at i belongs to a tag: a "<" stands at or before i with
\* no ">" between it and i.
InTag(s, i) ==
    \E j \in 1..i : s[j] = "<" /\ \A k \in j..(i - 1) : s[k] # ">"

\* stripHTML: the text content of the markup, tags removed
stripHTML(str) ==
    LET outside(i) == ~InTag(str, i)
        kept == SelectSeq([i \in 1..Len(str) |-> i], outside)
    IN  [k \in 1..Len(kept) |-> str[kept[k]]]

\* sanitizeHTML: textContent -> innerHTML escapes the markup characters
RECURSIVE EscapeFrom(_, _)
EscapeFrom(s, i) ==
    IF i > Len(s) THEN <<>>
    ELSE (CASE s[i] = "<" -> <<"&", "l", "t", ";">>
            [] s[i] = ">" -> <<"&", "g", "t", ";">>
            [] s[i] = "&" -> <<"&", "a", "m", "p", ";">>
            [] OTHER -> <<s[i]>>) \o EscapeFrom(s, i + 1)

sanitizeHTML(str) == EscapeFrom(str, 1)

Untitled == <<"U", "n", "t", "i", "t", "l", "e", "d">>
NoDescription ==
    <<"N", "o", " ", "d", "e", "s", "c", "r", "i", "p", "t", "i", "o", "n",
      " ", "a", "v", "a", "i", "l", "a", "b", "l", "e">>
Ellipsis == <<".", ".", ".">>
UnknownSource ==
    <<"U", "n", "k", "n", "o", "w", "n", " ", "S", "o", "u", "r", "c", "e">>

\* ------------------------------------------------------------------------
\* URLs
\* ------------------------------------------------------------------------
\* text: the string itself ("" when the field is absent);
\* protocol: what `new URL(text).protocol` is, "" when the constructor throws;
\* hostname: what `new URL(text).hostname` is.
Url(text, protocol, hostname) ==
    [text |-> text, protocol |-> protocol, hostname |-> hostname]

NoUrl == Url("", "", <<>>)
HashUrl == Url("#", "", <<>>)
PLACEHOLDER_IMAGE ==
    Url("https://images.unsplash.com/photo-1677442136019-21780ecad995?w=600&h=400&fit=crop",
        "https:",
        <<"i", "m", "a", "g", "e", "s", ".", "u", "n", "s", "p", "l", "a",
          "s", "h", ".", "c", "o", "m">>)

UrlThrows(url) == url.protocol = ""

\* sanitizeURL without the protocol test of line 49
sanitizeURL_AnyScheme(url) ==
    IF ~UrlThrows(url) THEN url ELSE PLACEHOLDER_IMAGE

sanitizeURL(url) ==
    IF ~UrlThrows(url) /\ (url.protocol = "http:" \/ url.protocol = "https:")
    THEN url
    ELSE PLACEHOLDER_IMAGE

getHostname(url) == IF UrlThrows(url) THEN UnknownSource ELSE url.hostname

\* ------------------------------------------------------------------------
\* Dates
\* ------------------------------------------------------------------------
\* A pubDate string: absent (""), a string Date can parse (ts = its epoch
\* milliseconds) or a non-empty string Date cannot parse (Invalid Date).
NoDate == [kind |-> "absent", ts |-> 0]
BadDate == [kind |-> "garbage", ts |-> 0]
DateStr(t) == [kind |-> "date", ts |-> t]

\* new Date(s) is a valid date
IsValidDate(p) == p.kind = "date"

\* new Date().toISOString() at time t
toISOString(t) == DateStr(t)

\* ------------------------------------------------------------------------
\* categorizeArticle (lines 73-91)
\* ------------------------------------------------------------------------
LLM_KEYWORDS ==
    { <<"g", "p", "t">>,
      <<"l", "l", "m">>,
      <<"l", "a", "n", "g", "u", "a", "g", "e", " ", "m", "o", "d", "e", "l">>,
      <<"c", "h", "a", "t", "b", "o", "t">>,
      <<"c", "h", "a", "t", "g", "p", "t">> }
VISION_KEYWORDS ==
    { <<"c", "o", "m", "p", "u", "t", "e", "r", " ", "v", "i", "s", "i", "o", "n">>,
      <<"i", "m", "a", "g", "e", " ", "r", "e", "c", "o", "g", "n", "i", "t", "i", "o", "n">>,
      <<"o", "p", "e", "n", "c", "v">>,
      <<"v", "i", "s", "u", "a", "l">> }
ETHICS_KEYWORDS ==
    { <<"e", "t", "h", "i", "c", "s">>,
      <<"b", "i", "a", "s">>,
      <<"r", "e", "s", "p", "o", "n", "s", "i", "b", "l", "e">>,
      <<"f", "a", "i", "r", "n", "e", "s", "s">> }
ML_KEYWORDS ==
    { <<"m", "a", "c", "h", "i", "n", "e", " ", "l", "e", "a", "r", "n", "i", "n", "g">>,
      <<"n", "e", "u", "r", "a", "l", " ", "n", "e", "t", "w", "o", "r", "k">>,
      <<"d", "e", "e", "p", " ", "l", "e", "a", "r", "n", "i", "n", "g">>,
      <<"m", "o", "d", "e", "l">> }

IncludesAny(content, keywords) == \E k \in keywords : includes(content, k)

\* The branches in the order other than the code's: vision tested first.
categorizeArticle_VisionFirst(title, description) ==
    LET content == toLowerCase(title \o <<" ">> \o description)
    IN  IF IncludesAny(content, VISION_KEYWORDS) THEN "vision"
        ELSE IF IncludesAny(content, LLM_KEYWORDS) THEN "llm"
        ELSE IF IncludesAny(content, ETHICS_KEYWORDS) THEN "ethics"
        ELSE IF IncludesAny(content, ML_KEYWORDS) THEN "ml"
        ELSE "ml"

categorizeArticle(title, description) ==
    LET content == toLowerCase(title \o <<" ">> \o description)
    IN  IF IncludesAny(content, LLM_KEYWORDS) THEN "llm"
        ELSE IF IncludesAny(content, VISION_KEYWORDS) THEN "vision"
        ELSE IF IncludesAny(content, ETHICS_KEYWORDS) THEN "ethics"
        ELSE IF IncludesAny(content, ML_KEYWORDS) THEN "ml"
        ELSE "ml"

\* ------------------------------------------------------------------------
\* Normalization of one raw feed item (lines 135-146)
\* ------------------------------------------------------------------------
\* A raw item: an absent (or empty) field is the empty text / NoUrl / NoDate;
\* all of them are falsy in the `||` fallbacks of the code.
RawItem(title, description, link, pubDate, author, thumbnail, enclosure) ==
    [title |-> title, description |-> description, link |-> link,
     pubDate |-> pubDate, author |-> author, thumbnail |-> thumbnail,
     enclosure |-> enclosure]

\* lines 136-146 without the fallback of line 137: const link = item.link
Normalize_NoLinkFallback(item, t) ==
    [title |-> IF item.title # <<>> THEN item.title ELSE Untitled,
     description |->
         IF item.description # <<>>
         THEN substring(stripHTML(item.description), DESCRIPTION_MAX_LENGTH)
                  \o Ellipsis
         ELSE NoDescription,
     link |-> item.link,
     pubDate |-> IF item.pubDate.kind # "absent" THEN item.pubDate
                 ELSE toISOString(t),
     source |-> IF item.author # <<>> THEN item.author
                ELSE getHostname(item.link),
     image |-> IF item.thumbnail.text # "" THEN item.thumbnail
               ELSE IF item.enclosure.text # "" THEN item.enclosure
               ELSE PLACEHOLDER_IMAGE,
     category |-> categorizeArticle(item.title, item.description)]

Normalize(item, t) ==
    LET link == IF item.link.text # "" THEN item.link ELSE HashUrl
    IN  [title |-> IF item.title # <<>> THEN item.title ELSE Untitled,
         description |->
             IF item.description # <<>>
             THEN substring(stripHTML(item.description), DESCRIPTION_MAX_LENGTH)
                      \o Ellipsis
             ELSE NoDescription,
         link |-> link,
         pubDate |-> IF item.pubDate.kind # "absent" THEN item.pubDate
                     ELSE toISOString(t),
         source |-> IF item.author # <<>> THEN item.author
                    ELSE getHostname(link),
         image |-> IF item.thumbnail.text # "" THEN item.thumbnail
                   ELSE IF item.enclosure.text # "" THEN item.enclosure
                   ELSE PLACEHOLDER_IMAGE,
         category |-> categorizeArticle(item.title, item.description)]

RECURSIVE NormalizeAll(_, _)
NormalizeAll(items, t) ==
    IF items = <<>> THEN <<>>
    ELSE <<Normalize(Head(items), t)>> \o NormalizeAll(Tail(items), t)

\* ------------------------------------------------------------------------
\* Sort by date, newest first (line 152), and deduplication (lines 155-160)
\* ------------------------------------------------------------------------
\* The comparator (a, b) => new Date(b.pubDate) - new Date(a.pubDate),
\* reduced to its sign; the difference is NaN when either date is invalid
\* and Array.prototype.sort reads NaN as +0.
Compare(a, b) ==
    IF IsValidDate(a.pubDate) /\ IsValidDate(b.pubDate)
    THEN (IF b.pubDate.ts > a.pubDate.ts THEN 1
          ELSE IF b.pubDate.ts < a.pubDate.ts THEN -1 ELSE 0)
    ELSE 0

\* The comparator is a consistent comparator (a strict weak order) on the
\* elements of s: "compares equal" is transitive.
ConsistentComparator(s) ==
    \A i, j, k \in 1..Len(s) :
        (Compare(s[i], s[j]) = 0 /\ Compare(s[j], s[k]) = 0)
            => Compare(s[i], s[k]) = 0

\* s[i] stands before s[j] once the array is sorted: the comparator puts
\* it first, or it leaves the two in the order they had (the sort is stable).
Precedes(s, i, j) ==
    \/ Compare(s[i], s[j]) < 0
    \/ Compare(s[i], s[j]) = 0 /\ i < j

\* Array.prototype.sort with a consistent comparator.
StableSort(s) ==
    LET rank(i) == 1 + Cardinality({ j \in 1..Len(s) : Precedes(s, j, i) })
    IN  [k \in 1..Len(s) |-> s[CHOOSE i \in 1..Len(s) : rank(i) = k]]

PermutationsOf(s) ==
    { [i \in 1..Len(s) |-> s[p[i]]] :
        p \in { q \in [1..Len(s) -> 1..Len(s)] :
                  \A i, j \in 1..Len(s) : q[i] = q[j] => i = j } }

\* Array.prototype.sort is stable; with a comparator that is not consistent
\* the resulting order is implementation-defined: any permutation.
SortOutcomes(s) ==
    IF ConsistentComparator(s) THEN { StableSort(s) } ELSE PermutationsOf(s)

RECURSIVE DedupFrom(_, _)
DedupFrom(s, seen) ==
    IF s = <<>> THEN <<>>
    ELSE IF Head(s).title \in seen THEN DedupFrom(Tail(s), seen)
    ELSE <<Head(s)>> \o DedupFrom(Tail(s), seen \cup {Head(s).title})

\* allNews.filter with the `seen` set: the first article of each title stays
RemoveDuplicates(s) == DedupFrom(s, {})

\* ------------------------------------------------------------------------
\* displayNews: filter, search, paginate (lines 185-200)
\* ------------------------------------------------------------------------
FilterByCategory(news, filter) ==
    IF filter = "all" THEN news
    ELSE LET keep(article) == article.category = filter
         IN  SelectSeq(news, keep)

\* the search applied to the title alone
SearchMatches_TitleOnly(article, searchTerm) ==
    includes(toLowerCase(article.title), searchTerm)

SearchMatches(article, searchTerm) ==
    \/ includes(toLowerCase(article.title), searchTerm)
    \/ includes(toLowerCase(article.description), searchTerm)

ApplySearch(news, searchTerm) ==
    IF searchTerm # <<>>
    THEN LET keep(article) == SearchMatches(article, searchTerm)
         IN  SelectSeq(news, keep)
    ELSE news

\* Array.prototype.slice(0, n)
slice(s, n) == SubSeq(s, 1, IF Len(s) < n THEN Len(s) ELSE n)

\* the displayedNews of displayNews: both filters applied
Displayed(news, filter, inputValue) ==
    ApplySearch(FilterByCategory(news, filter), toLowerCase(inputValue))

\* the slice without the page: always the first NEWS_PER_PAGE
Paginate_FirstPage(displayed, page) == slice(displayed, NEWS_PER_PAGE)

Paginate(displayed, page) == slice(displayed, page * NEWS_PER_PAGE)

\* ------------------------------------------------------------------------
\* State
\* ------------------------------------------------------------------------
VARIABLES
    allNews,          \* let allNews (line 18)
    displayedNews,    \* let displayedNews (line 19)
    currentFilter,    \* let currentFilter (line 20)
    currentPage,      \* let currentPage (line 21)
    cacheData,        \* localStorage item 'aiNewsCache'
    cacheTime,        \* localStorage item 'aiNewsCacheTime'
    loadingVisible,   \* #loadingState is not hidden
    errorVisible,     \* #errorState is not hidden
    gridVisible,      \* #newsGrid is not hidden
    loadMoreVisible,  \* #loadMoreContainer is not hidden
    gridCards,        \* the articles rendered into #newsGrid (paginatedNews)
    lastUpdated,      \* the time shown in #lastUpdated
    searchInput,      \* #searchInput.value
    modalOpen,        \* #articleModal.style.display = "flex"
    modalView,        \* what the modal elements hold
    pc,               \* "loading" | "awaiting" | "idle": where fetchAINews is
    now,              \* const now of the run (line 109)
    results,          \* what each promise of line 124 has settled to
    requests,         \* fetch() calls of the run, per feed
    caught,           \* the error the catch of line 167 received
    startData,        \* 'aiNewsCache' as the run read it (line 107)
    startTime,        \* 'aiNewsCacheTime' as the run read it (line 108)
    inFlight,         \* calls of fetchAINews suspended at the await of line 130
    arrival,          \* the feeds in the order their requests settled
    clock,            \* wall clock, epoch milliseconds
    args,             \* arguments of a function applied on its own
    ret               \* what that function returned

moduleVars == <<allNews, displayedNews, currentFilter, currentPage>>
storageVars == <<cacheData, cacheTime>>
viewVars ==
    <<loadingVisible, gridVisible, loadMoreVisible, gridCards, lastUpdated>>
modalVars == <<modalOpen, modalView>>
callVars == <<args, ret>>
runVars ==
    <<pc, now, results, requests, caught, startData, startTime, inFlight,
      arrival>>
vars ==
    <<allNews, displayedNews, currentFilter, currentPage, cacheData,
      cacheTime, loadingVisible, errorVisible, gridVisible, loadMoreVisible,
      gridCards, lastUpdated, searchInput, modalOpen, modalView, pc, now,
      results, requests, caught, startData, startTime, inFlight, arrival,
      clock, args,
      ret>>

\* ------------------------------------------------------------------------
\* Values of the JavaScript variables and of the storage items
\* ------------------------------------------------------------------------
\* What allNews / displayedNews hold: an array, or (after JSON.parse of a
\* cache item that is valid JSON but no array: null, a number, an object)
\* a value without slice / filter / map.
Arr(items) == [isArray |-> TRUE, items |-> items]
NonArrayJSON == [isArray |-> FALSE, items |-> <<>>]

\* localStorage.getItem('aiNewsCache'): null, a string that is not JSON,
\* or the JSON text of a value.
NoData == [kind |-> "none", val |-> Arr(<<>>)]
UnparseableData == [kind |-> "unparseable", val |-> Arr(<<>>)]
\* JSON.stringify
stringify(v) == [kind |-> "json", val |-> v]
ParseThrows(data) == data.kind # "json"
\* JSON.parse
parse(data) == data.val

\* localStorage.getItem('aiNewsCacheTime'): null, a string parseInt makes
\* NaN of, or the decimal digits of a number.
NoTime == [kind |-> "none", val |-> 0]
NaNTime == [kind |-> "nan", val |-> 0]
\* Number.prototype.toString
TimeString(t) == [kind |-> "num", val |-> t]

\* cachedData && cacheTime && (now - parseInt(cacheTime)) < CACHE_DURATION_MS
\* with the comparison the wrong way round
CacheIsFresh_Reversed(data, time, t) ==
    /\ data.kind # "none"
    /\ time.kind # "none"
    /\ time.kind = "num"
    /\ t - time.val > CACHE_DURATION_MS

\* cachedData && cacheTime && (now - parseInt(cacheTime)) < CACHE_DURATION_MS
CacheIsFresh(data, time, t) ==
    /\ data.kind # "none"
    /\ time.kind # "none"
    /\ time.kind = "num"
    /\ t - time.val < CACHE_DURATION_MS

\* ------------------------------------------------------------------------
\* Feed requests and their results (lines 124-128)
\* ------------------------------------------------------------------------
\* What a promise of line 124 resolves to: the parsed body, or the
\* substitute of the catch handler.
Pending == [settled |-> FALSE, isNull |-> FALSE, status |-> "",
            hasItems |-> FALSE, items |-> <<>>]
Body(status, hasItems, items) ==
    [settled |-> TRUE, isNull |-> FALSE, status |-> status,
     hasItems |-> hasItems, items |-> items]
NullBody == [settled |-> TRUE, isNull |-> TRUE, status |-> "",
             hasItems |-> FALSE, items |-> <<>>]
\* .catch(err => ({ status: 'error', items: [] }))
CatchResult == Body("error", TRUE, <<>>)

\* How a request can end: fetch rejects, res.json() rejects, or the body
\* parses to a JSON value.
Rejected == [how |-> "rejected", body |-> NullBody]
BadJson == [how |-> "badjson", body |-> NullBody]
Parsed(body) == [how |-> "parsed", body |-> body]

ResultOf(outcome) ==
    IF outcome.how \in {"rejected", "badjson"} THEN CatchResult
    ELSE outcome.body

\* RSS_FEEDS.map(feed => fetch(...)) leaving out the last feed
IssueRequests_SkipLast == [f \in Feeds |-> IF f = Len(RSS_FEEDS) THEN 0 ELSE 1]

\* RSS_FEEDS.map(feed => fetch(...)): one call per feed
IssueRequests == [f \in Feeds |-> 1]

NoRequests == [f \in Feeds |-> 0]

\* result.status === 'ok' && result.items
Usable(result) == result.status = "ok" /\ result.hasItems

\* ------------------------------------------------------------------------
\* displayNews (lines 177-257)
\* ------------------------------------------------------------------------
\* line 252 with <= for <
MoreRemain_OrEqual(paginatedNews, displayed) ==
    Len(paginatedNews) <= Len(displayed)

\* paginatedNews.length < displayedNews.length (line 252)
MoreRemain(paginatedNews, displayed) == Len(paginatedNews) < Len(displayed)

\* The part of the state displayNews writes.
View ==
    [displayedNews |-> displayedNews, loadingVisible |-> loadingVisible,
     gridVisible |-> gridVisible, loadMoreVisible |-> loadMoreVisible,
     gridCards |-> gridCards, lastUpdated |-> lastUpdated, threw |-> FALSE]

\* displayNews() run on `view` with allNews = news, currentFilter = filter,
\* currentPage = page and the stored time `time`.  On a value that is no
\* array it throws a TypeError at line 188 (filter), 193 (filter) or 200
\* (slice), after it hid the loading indicator and, with filter 'all',
\* assigned displayedNews.
displayNews(view, news, filter, page, time) ==
    IF ~news.isArray
    THEN [view EXCEPT !.loadingVisible = FALSE,
                      !.displayedNews = IF filter = "all" THEN news ELSE @,
                      !.threw = TRUE]
    ELSE LET displayed == Displayed(news.items, filter, searchInput)
             paginatedNews == Paginate(displayed, page)
         IN  [displayedNews |-> Arr(displayed),
              loadingVisible |-> FALSE,
              gridVisible |-> TRUE,
              loadMoreVisible |-> MoreRemain(paginatedNews, displayed),
              gridCards |-> paginatedNews,
              lastUpdated |-> IF time.kind # "none" THEN time
                              ELSE view.lastUpdated,
              threw |-> FALSE]

SetView(view) ==
    /\ displayedNews' = view.displayedNews
    /\ loadingVisible' = view.loadingVisible
    /\ gridVisible' = view.gridVisible
    /\ loadMoreVisible' = view.loadMoreVisible
    /\ gridCards' = view.gridCards
    /\ lastUpdated' = view.lastUpdated

\* ------------------------------------------------------------------------
\* fetchAINews, up to the await of line 130 (lines 96-130)
\* ------------------------------------------------------------------------
\* The state of the view after lines 101-103.
LoadingView ==
    [View EXCEPT !.loadingVisible = TRUE, !.gridVisible = FALSE]

\* What the run does after the cache check of lines 111-120, without the
\* inner try: an exception of JSON.parse or displayNews leaves the function.
AfterCacheCheck_NoInnerTry(fresh, parseThrew, displayThrew) ==
    IF ~fresh THEN "fetch"
    ELSE IF parseThrew \/ displayThrew THEN "throw"
    ELSE "return"

\* What the run does after the cache check of lines 111-120: it returns
\* when the fresh cache was parsed and displayed; an exception of
\* JSON.parse or displayNews is caught at line 116 and the run goes on.
AfterCacheCheck(fresh, parseThrew, displayThrew) ==
    IF fresh /\ ~parseThrew /\ ~displayThrew THEN "return" ELSE "fetch"

\* a catch that leaves the loading indicator as it is
CatchView_KeepLoading(view) == view

\* The catch of line 167: loading hidden, error shown.
CatchView(view) == [view EXCEPT !.loadingVisible = FALSE]

fetchAINews ==
    LET fresh == CacheIsFresh(cacheData, cacheTime, clock)
        parseThrew == fresh /\ ParseThrows(cacheData)
        parsed == IF fresh /\ ~parseThrew THEN parse(cacheData) ELSE allNews
        shown == IF fresh /\ ~parseThrew
                 THEN displayNews(LoadingView, parsed, currentFilter,
                                  currentPage, cacheTime)
                 ELSE LoadingView
        next == AfterCacheCheck(fresh, parseThrew, shown.threw)
    IN  /\ now' = clock
        /\ startData' = cacheData
        /\ startTime' = cacheTime
        /\ inFlight' = IF next = "fetch" THEN inFlight + 1 ELSE inFlight
        /\ arrival' = <<>>
        /\ allNews' = parsed
        /\ results' = [f \in Feeds |-> Pending]
        /\ CASE next = "return" ->
                  /\ pc' = "idle"
                  /\ requests' = NoRequests
                  /\ caught' = "none"
                  /\ errorVisible' = FALSE
                  /\ SetView(shown)
             [] next = "fetch" ->
                  /\ pc' = "awaiting"
                  /\ requests' = IssueRequests
                  /\ caught' = "none"
                  /\ errorVisible' = FALSE
                  /\ SetView(shown)
             [] next = "throw" ->
                  /\ pc' = "idle"
                  /\ requests' = NoRequests
                  /\ caught' = "cache"
                  /\ errorVisible' = TRUE
                  /\ SetView(CatchView(shown))
        /\ UNCHANGED <<currentFilter, currentPage, storageVars, searchInput,
                       modalVars, clock, callVars>>

\* window 'DOMContentLoaded' (line 380): the handlers are attached and the
\* first run starts (line 462).
DOMContentLoaded ==
    /\ pc = "loading"
    /\ fetchAINews

\* The retry button can be clicked: it is part of the error state of the
\* page, shown and hidden with #errorState.
RetryClickable == errorVisible

\* the retry button outside the error state: clickable once the page is loaded
Retry_AnyTime ==
    /\ pc # "loading"
    /\ fetchAINews

\* click on [data-action="retry"] (line 403)
Retry ==
    /\ pc # "loading"
    /\ RetryClickable
    /\ fetchAINews

\* A request of the run settles (lines 125-127).
Settle(f, outcome) ==
    /\ pc = "awaiting"
    /\ ~results[f].settled
    /\ results' = [results EXCEPT ![f] = ResultOf(outcome)]
    /\ UNCHANGED <<moduleVars, storageVars, viewVars, errorVisible,
                   searchInput, modalVars, pc, now, requests, caught,
                   startData, startTime, inFlight, arrival, clock, callVars>>

\* A request of the run settles (lines 125-127), and the order of
\* settlement is recorded.
SettleInOrder(f, outcome) ==
    /\ pc = "awaiting"
    /\ ~results[f].settled
    /\ results' = [results EXCEPT ![f] = ResultOf(outcome)]
    /\ arrival' = Append(arrival, f)
    /\ UNCHANGED <<moduleVars, storageVars, viewVars, errorVisible,
                   searchInput, modalVars, pc, now, requests, caught,
                   startData, startTime, inFlight, clock, callVars>>

\* ------------------------------------------------------------------------
\* fetchAINews, after the await (lines 130-172)
\* ------------------------------------------------------------------------
\* results.forEach of line 133 over the results lo..hi: the normalized
\* items of the usable results, in feed order.
RECURSIVE Collect(_, _, _, _)
Collect(rs, lo, hi, t) ==
    IF lo > hi THEN <<>>
    ELSE (IF Usable(rs[lo]) THEN NormalizeAll(rs[lo].items, t) ELSE <<>>)
             \o Collect(rs, lo + 1, hi, t)

\* The first result on which `result.status` throws (a null body), or one
\* past the last feed.
FirstThrowing(rs) ==
    IF \E f \in Feeds : rs[f].isNull
    THEN CHOOSE f \in Feeds :
             rs[f].isNull /\ \A g \in Feeds : rs[g].isNull => f <= g
    ELSE Len(RSS_FEEDS) + 1

\* How the two localStorage.setItem calls of lines 163-164 can end.
WriteOutcomes == {"written", "dataThrows", "timeThrows"}

\* Promise.all of line 130 has resolved.
AllSettled == pc = "awaiting" /\ \A f \in Feeds : results[f].settled

\* an aggregate that hands over the values in the order of settlement
PromiseAll_SettlementOrder(rs, order) ==
    [i \in 1..Len(order) |-> rs[order[i]]]

\* Promise.all (line 130): the values of the promises in the order of the
\* promises, which is the order of RSS_FEEDS, however they settled.
PromiseAll(rs, order) == rs

\* The orders in which line 152 can leave the collected articles.
FinishOrders ==
    IF AllSettled
    THEN LET awaited == PromiseAll(results, arrival)
             stop == FirstThrowing(awaited)
         IN  UNION { IF stop <= Len(RSS_FEEDS) THEN { collected }
                     ELSE SortOutcomes(collected) :
                     collected \in { Collect(awaited, 1, stop - 1, clock) } }
    ELSE {}

\* The continuation of Promise.all: all requests have settled.  `order`
\* is the collection as line 152 leaves it (as the throwing forEach leaves
\* it, when a result is null).
FinishRun(order, write) ==
    /\ AllSettled
    /\ order \in FinishOrders
    /\ pc' = "idle"
    /\ inFlight' = inFlight - 1
    /\ IF FirstThrowing(PromiseAll(results, arrival)) <= Len(RSS_FEEDS)
       THEN \* TypeError at line 134, inside forEach
            /\ write = "written"
            /\ allNews' = Arr(order)
            /\ caught' = "result"
            /\ errorVisible' = TRUE
            /\ SetView(CatchView(View))
            /\ UNCHANGED storageVars
       ELSE LET final == RemoveDuplicates(order)
            IN  /\ allNews' = Arr(final)
                /\ CASE write = "written" ->
                          /\ cacheData' = stringify(Arr(final))
                          /\ cacheTime' = TimeString(now)
                          /\ caught' = "none"
                          /\ UNCHANGED errorVisible
                          /\ SetView(displayNews(View, Arr(final),
                                 currentFilter, currentPage,
                                 TimeString(now)))
                     [] write = "dataThrows" ->
                          /\ UNCHANGED storageVars
                          /\ caught' = "storage"
                          /\ errorVisible' = TRUE
                          /\ SetView(CatchView(View))
                     [] write = "timeThrows" ->
                          /\ cacheData' = stringify(Arr(final))
                          /\ UNCHANGED cacheTime
                          /\ caught' = "storage"
                          /\ errorVisible' = TRUE
                          /\ SetView(CatchView(View))
    /\ UNCHANGED <<currentFilter, currentPage, searchInput, modalVars, now,
                   results, requests, startData, startTime, arrival, clock,
                   callVars>>

\* ------------------------------------------------------------------------
\* User interaction handlers (lines 290-322)
\* ------------------------------------------------------------------------
\* filterNews without the reset of line 292
filterNews_KeepPage(category) ==
    /\ pc # "loading"
    /\ currentFilter' = category
    /\ currentPage' = currentPage
    /\ SetView(displayNews(View, allNews, category, currentPage, cacheTime))
    /\ UNCHANGED <<allNews, storageVars, errorVisible, searchInput, modalVars,
                   runVars, clock, callVars>>

\* click on a .filter-btn (line 383)
filterNews(category) ==
    /\ pc # "loading"
    /\ currentFilter' = category
    /\ currentPage' = 1
    /\ SetView(displayNews(View, allNews, category, 1, cacheTime))
    /\ UNCHANGED <<allNews, storageVars, errorVisible, searchInput, modalVars,
                   runVars, clock, callVars>>

\* the user edits #searchInput
EditSearchInput(value) ==
    /\ pc # "loading"
    /\ searchInput # value
    /\ searchInput' = value
    /\ UNCHANGED <<moduleVars, storageVars, viewVars, errorVisible, modalVars,
                   runVars, clock, callVars>>

\* a searchNews that fetches the feeds anew
searchNews_Refetch ==
    /\ pc # "loading"
    /\ fetchAINews

\* 'keyup' on #searchInput (line 391)
searchNews ==
    /\ pc # "loading"
    /\ currentPage' = 1
    /\ SetView(displayNews(View, allNews, currentFilter, 1, cacheTime))
    /\ UNCHANGED <<allNews, currentFilter, storageVars, errorVisible,
                   searchInput, modalVars, runVars, clock, callVars>>

\* loadMoreNews() (lines 319-322)
loadMoreNews ==
    /\ pc # "loading"
    /\ currentPage < MaxPage
    /\ currentPage' = currentPage + 1
    /\ SetView(displayNews(View, allNews, currentFilter, currentPage + 1,
                           cacheTime))
    /\ UNCHANGED <<allNews, currentFilter, storageVars, errorVisible,
                   searchInput, modalVars, runVars, clock, callVars>>

\* click on [data-action="load-more"] (line 397), a button inside
\* #loadMoreContainer: it can be clicked while the container is shown
ClickLoadMore ==
    /\ loadMoreVisible
    /\ loadMoreNews

\* ------------------------------------------------------------------------
\* The article modal (lines 262-285, 327-377)
\* ------------------------------------------------------------------------
getCategoryName(category) ==
    CASE category = "llm" -> "LLMs"
      [] category = "ml" -> "Machine Learning"
      [] category = "vision" -> "Computer Vision"
      [] category = "ethics" -> "AI Ethics"
      [] OTHER -> "AI News"

\* formatDate at time t; n is the day count of "N days ago" or the date
formatDate(dateString, t) ==
    IF ~IsValidDate(dateString) THEN [text |-> "Invalid Date", n |-> 0]
    ELSE LET days == (t - dateString.ts) \div MS_PER_DAY
         IN  IF days = 0 THEN [text |-> "Today", n |-> 0]
             ELSE IF days = 1 THEN [text |-> "Yesterday", n |-> 0]
             ELSE IF days < 7 THEN [text |-> "days ago", n |-> days]
             ELSE [text |-> "date", n |-> dateString.ts]

\* What openArticleModal builds of the article: the title (line 336), the
\* child nodes of #modalMeta (lines 339-344), of #modalImage (lines 347-355)
\* and of #modalContentText (lines 358-362), and the href of #modalLink
\* (line 364).
ModalOf(article, t) ==
    [title |-> article.title,
     meta |-> << [node |-> "text", date |-> formatDate(article.pubDate, t),
                  source |-> article.source, label |-> ""],
                 [node |-> "span", date |-> [text |-> "", n |-> 0],
                  source |-> <<>>,
                  label |-> getCategoryName(article.category)] >>,
     image |-> << [src |-> sanitizeURL(article.image), alt |-> article.title] >>,
     text |-> << [preview |-> replaceFirst(article.description, Ellipsis),
                  source |-> article.source] >>,
     link |-> sanitizeURL(article.link)]

\* The modal elements as the page is loaded: empty.
EmptyModal ==
    [title |-> <<>>, meta |-> <<>>, image |-> <<>>, text |-> <<>>,
     link |-> NoUrl]

\* openArticleModal without line 354: the new img is appended to the
\* children #modalImage already has
OpenModal_NoClear(view, article, t) ==
    [ModalOf(article, t) EXCEPT !.image = view.image \o @]

\* The modal elements after openArticleModal(article): textContent is
\* assigned or cleared before every appendChild, href is assigned.
OpenModal(view, article, t) == ModalOf(article, t)

\* click on the card of gridCards[i] (lines 236-240)
openArticleModal(i) ==
    /\ gridVisible
    /\ i \in 1..Len(gridCards)
    /\ modalView' = OpenModal(modalView, gridCards[i], clock)
    /\ modalOpen' = TRUE
    /\ UNCHANGED <<moduleVars, storageVars, viewVars, errorVisible,
                   searchInput, runVars, clock, callVars>>

\* closeArticleModal() (lines 373-377)
closeArticleModal ==
    /\ modalOpen
    /\ modalOpen' = FALSE
    /\ UNCHANGED <<moduleVars, storageVars, viewVars, errorVisible,
                   searchInput, modalView, runVars, clock, callVars>>

\* Where a click on the open modal can land: the close button, the modal
\* content, or #articleModal itself around the content.
ModalTargets == {"closeBtn", "content", "backdrop"}

\* The click calls closeArticleModal: the listener of #modalCloseBtn (line
\* 424), or the listener of #articleModal with e.target === articleModal
\* (line 431); a click in #modalContent is stopped at line 441.
ClosesModal(target) == target \in {"closeBtn", "backdrop"}

\* a click on the open modal (lines 421-443)
ModalClick(target) ==
    /\ modalOpen
    /\ IF ClosesModal(target) THEN closeArticleModal ELSE UNCHANGED vars

\* What the template of lines 210-233 puts into the markup of a card: the
\* src of the img (line 213) and, in the version of the module without the
\* modal, the href of the anchor (line 692).
RenderCard(article) ==
    [src |-> sanitizeURL(article.image), href |-> sanitizeURL(article.link)]

\* ------------------------------------------------------------------------
\* Environment
\* ------------------------------------------------------------------------
\* Time passes.
Tick(d) ==
    /\ clock + d <= MaxClock
    /\ clock' = clock + d
    /\ UNCHANGED <<moduleVars, storageVars, viewVars, errorVisible,
                   searchInput, modalVars, runVars, callVars>>

\* The state of the script and of the page when the document is loaded.
Loaded ==
    /\ allNews = Arr(<<>>)
    /\ displayedNews = Arr(<<>>)
    /\ currentFilter = "all"
    /\ currentPage = 1
    /\ loadingVisible = TRUE
    /\ errorVisible = FALSE
    /\ gridVisible = FALSE
    /\ loadMoreVisible = FALSE
    /\ gridCards = <<>>
    /\ lastUpdated = NoTime
    /\ searchInput = <<>>
    /\ modalOpen = FALSE
    /\ modalView = EmptyModal
    /\ now = 0
    /\ results = [f \in Feeds |-> Pending]
    /\ requests = NoRequests
    /\ caught = "none"
    /\ startData = NoData
    /\ startTime = NoTime
    /\ inFlight = 0
    /\ arrival = <<>>

\* ------------------------------------------------------------------------
\* Inputs
\* ------------------------------------------------------------------------
Digits == <<"0", "1", "2", "3", "4", "5", "6", "7", "8", "9">>
\* the decimal digits of i < 100
Numeral(i) == <<Digits[(i \div 10) + 1], Digits[(i % 10) + 1]>>

TitleGPT == <<"G", "P", "T">>
TitleCamera == <<"C", "a", "m", "e", "r", "a">>
TitleNews == <<"n", "e", "w", "s">>
DescVisual == <<"<", "p", ">", "V", "i", "s", "u", "a", "l", "<", "/", "p", ">">>
DescBias == <<"b", "i", "a", "s">>
AuthorAnn == <<"A", "n", "n">>
TermGpt == <<"g", "p", "t">>
TermCamera == <<"C", "A", "M", "E", "R", "A">>

FeedLink ==
    Url("https://techcrunch.com/a", "https:",
        <<"t", "e", "c", "h", "c", "r", "u", "n", "c", "h", ".", "c", "o", "m">>)
ScriptLink == Url("javascript:alert(1)", "javascript:", <<>>)

PlainItem(title, description, pubDate) ==
    RawItem(title, description, FeedLink, pubDate, <<>>, NoUrl, NoUrl)

\* All sequences over S of length at most n.
SeqUpTo(S, n) == UNION { [1..k -> S] : k \in 0..n }

\* The ways a request can end, for bodies whose item lists are in `lists`.
Outcomes(lists) ==
    { Rejected, BadJson, Parsed(NullBody), Parsed(Body("error", FALSE, <<>>)),
      Parsed(Body("ok", FALSE, <<>>)) }
        \cup { Parsed(Body("ok", TRUE, items)) : items \in lists }

\* The items of the widget specification.
MainItems == { PlainItem(TitleGPT, DescVisual, DateStr(1)) }
MainOutcomes ==
    { Rejected, Parsed(NullBody) }
        \cup { Parsed(Body("ok", TRUE, items)) :
                 items \in SeqUpTo(MainItems, MaxItems) \ {<<>>} }
MainTerms == { <<>>, TermGpt }
MainFilters == { "all", "vision" }

\* A collection an earlier session stored: n articles of distinct titles,
\* normalized, sorted and deduplicated as lines 132-160 leave them.
NumberedItem(i) ==
    PlainItem((IF i % 2 = 0 THEN TitleGPT ELSE TitleCamera) \o Numeral(i),
              DescVisual, DateStr(100 - i))
StoredCollection(n) ==
    RemoveDuplicates(StableSort(
        NormalizeAll([i \in 1..n |-> NumberedItem(i)], 0)))

MainStoredData ==
    { NoData, UnparseableData, stringify(NonArrayJSON) }
        \cup { stringify(Arr(StoredCollection(n))) :
                 n \in {0, 1, NEWS_PER_PAGE + 1} }
\* At the first clock value: no time, a malformed time, a time exactly
\* CACHE_DURATION_MS ago, a time one millisecond younger.
MainStoredTime == { NoTime, NaNTime, TimeString(0), TimeString(1) }
\* The cache entries of the widget specification: every data item with the
\* younger time, the one-article collection with every time, and no entry.
MainStored ==
    { entry \in MainStoredData \X MainStoredTime :
        \/ entry[2] = TimeString(1)
        \/ entry[1] = stringify(Arr(StoredCollection(1)))
        \/ entry[1] = NoData /\ entry[2] = NoTime }

NoArgs == <<>>
NoRet == <<>>

\* ------------------------------------------------------------------------
\* Specification of the widget
\* ------------------------------------------------------------------------
Init ==
    /\ Loaded
    /\ pc = "loading"
    /\ \E entry \in MainStored :
          /\ cacheData = entry[1]
          /\ cacheTime = entry[2]
    /\ clock = CACHE_DURATION_MS
    /\ args = NoArgs
    /\ ret = NoRet

Next ==
    \/ DOMContentLoaded
    \/ Retry
    \/ \E f \in Feeds, outcome \in MainOutcomes : Settle(f, outcome)
    \/ \E order \in FinishOrders, write \in WriteOutcomes :
         FinishRun(order, write)
    \/ searchNews
    \/ \E category \in MainFilters : filterNews(category)
    \/ \E value \in MainTerms : EditSearchInput(value)
    \/ ClickLoadMore

Spec == Init /\ [][Next]_vars

\* ------------------------------------------------------------------------
\* Specification of one aggregation run, over many feed responses
\* ------------------------------------------------------------------------
RunTitles == { TitleGPT, TitleCamera }
RunDates == { DateStr(1), DateStr(2), BadDate }
RunItems ==
    { PlainItem(title, DescVisual, pubDate) :
        title \in RunTitles, pubDate \in RunDates }
RunOutcomes == Outcomes(SeqUpTo(RunItems, MaxFeedItems))

\* The items received so far in the run.
RECURSIVE ReceivedItems(_, _)
ReceivedItems(rs, f) ==
    IF f > Len(RSS_FEEDS) THEN 0
    ELSE Len(rs[f].items) + ReceivedItems(rs, f + 1)

InitRun ==
    /\ Loaded
    /\ pc = "loading"
    /\ \/ cacheData = NoData /\ cacheTime = NoTime
       \/ /\ cacheData = stringify(Arr(StoredCollection(1)))
          /\ cacheTime = TimeString(0)
    /\ clock = CACHE_DURATION_MS
    /\ args = NoArgs
    /\ ret = NoRet

NextRun ==
    \/ DOMContentLoaded
    \/ \E f \in Feeds, outcome \in RunOutcomes :
         /\ ReceivedItems(results, 1) + Len(outcome.body.items) <= MaxAggItems
         /\ Settle(f, outcome)
    \/ \E order \in FinishOrders, write \in WriteOutcomes :
         FinishRun(order, write)

SpecRun == InitRun /\ [][NextRun]_vars

\* ------------------------------------------------------------------------
\* Specification of categorizeArticle applied to a title and a description
\* ------------------------------------------------------------------------
WordGPT == <<"G", "P", "T">>
WordChatbots == <<"c", "h", "a", "t", "b", "o", "t", "s">>
WordVisual == <<"V", "i", "s", "u", "a", "l">>
WordUnbiased == <<"u", "n", "b", "i", "a", "s", "e", "d">>
WordModel == <<"m", "o", "d", "e", "l">>
WordLanguage == <<"L", "a", "n", "g", "u", "a", "g", "e">>
WordNews == <<"n", "e", "w", "s">>
CatWords ==
    { WordGPT, WordChatbots, WordVisual, WordUnbiased, WordModel,
      WordLanguage, WordNews }

\* the words joined by single spaces
RECURSIVE JoinWords(_)
JoinWords(ws) ==
    IF ws = <<>> THEN <<>>
    ELSE IF Len(ws) = 1 THEN ws[1]
    ELSE ws[1] \o <<" ">> \o JoinWords(Tail(ws))

CatTexts == { JoinWords(ws) : ws \in SeqUpTo(CatWords, MaxWords) }

InitCat ==
    /\ Loaded
    /\ pc = "call"
    /\ cacheData = NoData
    /\ cacheTime = NoTime
    /\ clock = CACHE_DURATION_MS
    /\ args \in [title : CatTexts, description : CatTexts]
    /\ ret = ""

\* line 136: categorizeArticle(item.title || '', item.description || '')
CallCategorize ==
    /\ pc = "call"
    /\ ret' = categorizeArticle(args.title, args.description)
    /\ pc' = "returned"
    /\ UNCHANGED <<moduleVars, storageVars, viewVars, errorVisible,
                   searchInput, modalVars, now, results, requests, caught,
                   startData, startTime, inFlight, arrival, clock, args>>

NextCat == CallCategorize

SpecCat == InitCat /\ [][NextCat]_vars

\* ------------------------------------------------------------------------
\* Specification of the view over stored collections of many articles
\* ------------------------------------------------------------------------
DescCameraBias ==
    <<"N", "e", "w", " ", "c", "a", "m", "e", "r", "a", " ", "b", "i", "a", "s">>
ViewKinds ==
    [title : { TitleCamera, TitleGPT, TitleNews },
     description : { <<>>, DescVisual, DescCameraBias }]
ViewPatterns == SeqUpTo(ViewKinds, 2) \ { <<>> }

\* n items of distinct titles, of the kinds of the pattern in turn
PatternItem(pattern, i) ==
    LET kind == pattern[((i - 1) % Len(pattern)) + 1]
    IN  PlainItem(kind.title \o Numeral(i), kind.description,
                  DateStr(100 - i))
PatternCollection(pattern, n) ==
    RemoveDuplicates(StableSort(
        NormalizeAll([i \in 1..n |-> PatternItem(pattern, i)], 0)))

ViewCollections ==
    { PatternCollection(pattern, n) :
        pattern \in ViewPatterns, n \in 0..MaxArticles }
ViewTerms == { <<>>, TermCamera }

InitView ==
    /\ Loaded
    /\ pc = "loading"
    /\ cacheData \in { stringify(Arr(c)) : c \in ViewCollections }
    /\ cacheTime = TimeString(1)
    /\ clock = CACHE_DURATION_MS
    /\ args = NoArgs
    /\ ret = NoRet

NextView ==
    \/ DOMContentLoaded
    \/ searchNews
    \/ \E category \in FilterButtons : filterNews(category)
    \/ \E value \in ViewTerms : EditSearchInput(value)
    \/ ClickLoadMore

SpecView == InitView /\ [][NextView]_vars

\* ------------------------------------------------------------------------
\* Specification of the pagination: the handlers called on a stored
\* collection of up to MaxStored articles, loadMoreNews() also while the
\* load-more control is hidden
\* ------------------------------------------------------------------------
InitPage ==
    /\ Loaded
    /\ pc = "loading"
    /\ cacheData \in { stringify(Arr(StoredCollection(n))) : n \in 0..MaxStored }
    /\ cacheTime = TimeString(1)
    /\ clock = CACHE_DURATION_MS
    /\ args = NoArgs
    /\ ret = NoRet

NextPage ==
    \/ DOMContentLoaded
    \/ searchNews
    \/ \E category \in FilterButtons : filterNews(category)
    \/ \E value \in MainTerms : EditSearchInput(value)
    \/ loadMoreNews

SpecPage == InitPage /\ [][NextPage]_vars

\* ------------------------------------------------------------------------
\* Specification of the normalization of one raw feed item (lines 136-146)
\* ------------------------------------------------------------------------
\* a description longer than DESCRIPTION_MAX_LENGTH
LongDescription == [i \in 1..(DESCRIPTION_MAX_LENGTH + 1) |-> "a"]
\* a description that is markup only
EmptyMarkup == <<"<", "b", "r", ">">>
\* a link new URL() cannot parse
RelativeLink == Url("/article/1", "", <<>>)
ThumbLink ==
    Url("https://cdn.example.com/t.png", "https:",
        <<"c", "d", "n", ".", "e", "x", "a", "m", "p", "l", "e", ".", "c", "o", "m">>)

NormItems ==
    { RawItem(title, description, link, pubDate, author, thumbnail, enclosure) :
        title \in { <<>>, TitleGPT },
        description \in { <<>>, DescVisual, EmptyMarkup, LongDescription },
        link \in { NoUrl, FeedLink, ScriptLink, RelativeLink },
        pubDate \in { NoDate, BadDate, DateStr(1) },
        author \in { <<>>, AuthorAnn },
        thumbnail \in { NoUrl, ThumbLink, ScriptLink },
        enclosure \in { NoUrl, ThumbLink } }

InitNorm ==
    /\ Loaded
    /\ pc = "call"
    /\ cacheData = NoData
    /\ cacheTime = NoTime
    /\ clock = CACHE_DURATION_MS
    /\ args \in NormItems
    /\ ret = NoRet

\* the body of result.items.forEach (lines 136-146) on one item
CallNormalize ==
    /\ pc = "call"
    /\ ret' = Normalize(args, clock)
    /\ pc' = "returned"
    /\ UNCHANGED <<moduleVars, storageVars, viewVars, errorVisible,
                   searchInput, modalVars, now, results, requests, caught,
                   startData, startTime, inFlight, arrival, clock, args>>

NextNorm == CallNormalize

SpecNorm == InitNorm /\ [][NextNorm]_vars

\* ------------------------------------------------------------------------
\* Specification of the modal: a run, from a cache entry or from the feeds,
\* over items with safe, unsafe and absent URLs, then clicks on the cards
\* and on the modal
\* ------------------------------------------------------------------------
ModalItems ==
    { RawItem(title, DescVisual, urls[1], DateStr(1), <<>>, urls[2], NoUrl) :
        title \in { TitleGPT, TitleCamera },
        urls \in { <<FeedLink, ThumbLink>>, <<ScriptLink, ScriptLink>>,
                   <<NoUrl, NoUrl>> } }
ModalLists == SeqUpTo(ModalItems, MaxModalItems) \ { <<>> }
ModalOutcomes ==
    { Rejected } \cup { Parsed(Body("ok", TRUE, items)) : items \in ModalLists }

InitModal ==
    /\ Loaded
    /\ pc = "loading"
    /\ \/ cacheData = NoData /\ cacheTime = NoTime
       \/ /\ cacheData \in
               { stringify(Arr(RemoveDuplicates(StableSort(
                     NormalizeAll(items, 0))))) : items \in ModalLists }
          /\ cacheTime = TimeString(1)
    /\ clock = CACHE_DURATION_MS
    /\ args = NoArgs
    /\ ret = NoRet

NextModal ==
    \/ DOMContentLoaded
    \/ \E f \in Feeds, outcome \in ModalOutcomes :
         /\ ReceivedItems(results, 1) + Len(outcome.body.items) <= MaxModalItems
         /\ Settle(f, outcome)
    \/ \E order \in FinishOrders, write \in WriteOutcomes :
         FinishRun(order, write)
    \/ \E i \in 1..MaxModalItems : openArticleModal(i)
    \/ \E target \in ModalTargets : ModalClick(target)

SpecModal == InitModal /\ [][NextModal]_vars

\* ------------------------------------------------------------------------
\* Specification of one run whose requests settle in every order
\* ------------------------------------------------------------------------
\* Items that tie on the date, and items that share a title.
OrderItems ==
    { PlainItem(title, description, pubDate) :
        title \in { TitleGPT, TitleCamera },
        description \in { DescVisual, DescBias },
        pubDate \in { DateStr(1), DateStr(2) } }
OrderOutcomes ==
    { Rejected, Parsed(NullBody) }
        \cup { Parsed(Body("ok", TRUE, <<item>>)) : item \in OrderItems }

InitOrder ==
    /\ Loaded
    /\ pc = "loading"
    /\ cacheData = NoData
    /\ cacheTime = NoTime
    /\ clock = CACHE_DURATION_MS
    /\ args = NoArgs
    /\ ret = NoRet

NextOrder ==
    \/ DOMContentLoaded
    \/ \E f \in Feeds, outcome \in OrderOutcomes : SettleInOrder(f, outcome)
    \/ \E order \in FinishOrders, write \in WriteOutcomes :
         FinishRun(order, write)

SpecOrder == InitOrder /\ [][NextOrder]_vars

\* ------------------------------------------------------------------------
\* Specification of one run over feeds that return items without a title
\* ------------------------------------------------------------------------
UntitledItems ==
    { PlainItem(title, DescVisual, pubDate) :
        title \in { <<>>, TitleGPT }, pubDate \in { DateStr(1), DateStr(2) } }
UntitledOutcomes ==
    { Rejected, Parsed(NullBody) }
        \cup { Parsed(Body("ok", TRUE, items)) :
                 items \in SeqUpTo(UntitledItems, MaxFeedItems) \ {<<>>} }

NextUntitled ==
    \/ DOMContentLoaded
    \/ \E f \in Feeds, outcome \in UntitledOutcomes :
         /\ ReceivedItems(results, 1) + Len(outcome.body.items) <= MaxAggItems
         /\ Settle(f, outcome)
    \/ \E order \in FinishOrders, write \in WriteOutcomes :
         FinishRun(order, write)

SpecUntitled == InitOrder /\ [][NextUntitled]_vars

\* ------------------------------------------------------------------------
\* Specification of the widget with every action of the user: filter,
\* search, load more, the article modal and retry, around the runs
\* ------------------------------------------------------------------------
FrameOutcomes ==
    { Rejected, Parsed(NullBody) }
        \cup { Parsed(Body("ok", TRUE, <<item>>)) : item \in MainItems }

InitFrame ==
    /\ Loaded
    /\ pc = "loading"
    /\ \/ cacheData = NoData /\ cacheTime = NoTime
       \/ /\ cacheData = stringify(Arr(StoredCollection(NEWS_PER_PAGE + 1)))
          /\ cacheTime = TimeString(1)
    /\ clock = CACHE_DURATION_MS
    /\ args = NoArgs
    /\ ret = NoRet

NextFrame ==
    \/ DOMContentLoaded
    \/ Retry
    \/ \E f \in Feeds, outcome \in FrameOutcomes : Settle(f, outcome)
    \/ \E order \in FinishOrders, write \in WriteOutcomes :
         FinishRun(order, write)
    \/ searchNews
    \/ \E category \in MainFilters : filterNews(category)
    \/ \E value \in MainTerms : EditSearchInput(value)
    \/ ClickLoadMore
    \/ openArticleModal(1)
    \/ \E target \in ModalTargets : ModalClick(target)

SpecFrame == InitFrame /\ [][NextFrame]_vars

\* ------------------------------------------------------------------------
\* Specification of the widget under a fair schedule: every request
\* settles, and the continuation of the await runs once all have settled
\* ------------------------------------------------------------------------
LiveStored ==
    { <<NoData, NoTime>>,
      <<stringify(Arr(StoredCollection(1))), TimeString(0)>>,
      <<stringify(Arr(StoredCollection(1))), TimeString(1)>>,
      <<UnparseableData, TimeString(1)>>,
      <<stringify(NonArrayJSON), TimeString(1)>> }
LiveOutcomes ==
    { Rejected, BadJson, Parsed(NullBody),
      Parsed(Body("ok", TRUE, <<PlainItem(TitleGPT, DescVisual, BadDate)>>)) }

InitLive ==
    /\ Loaded
    /\ pc = "loading"
    /\ \E entry \in LiveStored :
          /\ cacheData = entry[1]
          /\ cacheTime = entry[2]
    /\ clock = CACHE_DURATION_MS
    /\ args = NoArgs
    /\ ret = NoRet

SomeSettle == \E f \in Feeds, outcome \in LiveOutcomes : Settle(f, outcome)
SomeFinish ==
    \E order \in FinishOrders, write \in WriteOutcomes :
        FinishRun(order, write)

NextLive ==
    \/ DOMContentLoaded
    \/ Retry
    \/ SomeSettle
    \/ SomeFinish
    \/ \E category \in MainFilters : filterNews(category)

SpecLive ==
    /\ InitLive
    /\ [][NextLive]_vars
    /\ WF_vars(DOMContentLoaded)
    /\ WF_vars(SomeSettle)
    /\ WF_vars(SomeFinish)

\* ------------------------------------------------------------------------
\* Properties
\* ------------------------------------------------------------------------
\* A run of fetchAINews has started on this page.
RunStarted == pc \in {"awaiting", "idle"}
\* The run has gone through the continuation of Promise.all.
RunFinished == pc = "idle" /\ \A f \in Feeds : results[f].settled

\* The cache entry as the run read it.
StartFresh ==
    startTime.kind = "num" /\ now - startTime.val < CACHE_DURATION_MS
StartStale ==
    startTime.kind = "num" /\ now - startTime.val >= CACHE_DURATION_MS
StartAbsent == startData.kind = "none" \/ startTime.kind = "none"
StartParseable == startData.kind = "json" /\ startData.val.isArray
StartMalformed ==
    \/ startData.kind = "unparseable"
    \/ startData.kind = "json" /\ ~startData.val.isArray

\* C1: a run that finds a parseable cached collection whose timestamp is
\* less than CACHE_DURATION_MS old issues no request and leaves the cached
\* collection in allNews.
C1_FreshCacheIsUsed ==
    (RunStarted /\ StartFresh /\ StartParseable)
        => /\ \A f \in Feeds : requests[f] = 0
           /\ pc = "idle"
           /\ allNews = startData.val

C1_Witness ==
    /\ RunStarted /\ StartFresh /\ StartParseable
    /\ now - startTime.val = CACHE_DURATION_MS - 1
    /\ gridVisible /\ Len(gridCards) > 0

\* C2: a run that finds no cache entry, or one at least CACHE_DURATION_MS
\* old, issues exactly one request for every feed of RSS_FEEDS.
C2_OneRequestPerFeed ==
    (RunStarted /\ (StartAbsent \/ StartStale))
        => \A f \in Feeds : requests[f] = 1

C2_Witness ==
    /\ pc = "awaiting"
    /\ StartStale /\ StartParseable
    /\ now - startTime.val = CACHE_DURATION_MS
    /\ \A f \in Feeds : requests[f] = 1

\* C6: a run that finds a cache entry fresh by its timestamp but malformed
\* requests every feed, and no exception of the cache reaches the catch of
\* line 167: the error state is not shown while the requests are pending.
C6_MalformedCacheIsRefetched ==
    (RunStarted /\ StartFresh /\ StartMalformed)
        => /\ \A f \in Feeds : requests[f] = 1
           /\ caught # "cache"
           /\ (pc = "awaiting" => ~errorVisible)

C6_Witness ==
    /\ RunFinished /\ StartFresh /\ StartMalformed
    /\ gridVisible /\ ~errorVisible
    /\ allNews.isArray /\ Len(allNews.items) > 0

\* The requests of the run that ended in a failure the claims name: a
\* rejected fetch or a body res.json() rejects (both leave the substitute of
\* the catch handler), or a body with a status other than 'ok'.
FeedFailed(result) ==
    result.settled /\ ~result.isNull /\ result.status # "ok"
\* The request returned a body with status 'ok' and an item list.
FeedSucceeded(result) ==
    result.settled /\ ~result.isNull /\ result.status = "ok" /\ result.hasItems

\* the normalized items of the feeds that succeeded, in feed order
RECURSIVE SucceededItems(_)
SucceededItems(f) ==
    IF f > Len(RSS_FEEDS) THEN <<>>
    ELSE (IF FeedSucceeded(results[f])
          THEN NormalizeAll(results[f].items, clock) ELSE <<>>)
             \o SucceededItems(f + 1)

\* C3: a run without a valid cache in which no feed returns an item ends in
\* the error state, not with the grid shown.
C3_TotalFailureShowsError ==
    (/\ RunFinished
     /\ ~(StartFresh /\ StartParseable)
     /\ \A f \in Feeds :
          ~(FeedSucceeded(results[f]) /\ results[f].items # <<>>))
        => (errorVisible /\ ~gridVisible)

\* C4: a run in which some requests fail and at least one succeeds does not
\* enter the error state, and allNews holds the normalized, sorted and
\* deduplicated items of the feeds that succeeded.
C4_PartialFailureIsTolerated ==
    (/\ RunFinished
     /\ \A f \in Feeds : FeedFailed(results[f]) \/ FeedSucceeded(results[f])
     /\ \E f \in Feeds : FeedFailed(results[f])
     /\ \E f \in Feeds : FeedSucceeded(results[f]))
        => /\ ~errorVisible
           /\ allNews \in { Arr(RemoveDuplicates(order)) :
                              order \in SortOutcomes(SucceededItems(1)) }

\* C5: the stored cache entry differs from the one the run read only after
\* a run in which at least one feed returned usable data.
C5_CacheWrittenOnlyOnSuccess ==
    (RunStarted /\ (cacheData # startData \/ cacheTime # startTime))
        => \E f \in Feeds :
             FeedSucceeded(results[f]) /\ results[f].items # <<>>

\* The forEach of line 133 ran to its end.
Aggregated == RunFinished /\ \A f \in Feeds : ~results[f].isNull

\* C7: after a run that fetched, no two articles of allNews have the same
\* title, and no received item of the same title is newer than the article
\* that was kept.
C7_DedupKeepsLatest ==
    Aggregated
        => /\ \A i, j \in 1..Len(allNews.items) :
                allNews.items[i].title = allNews.items[j].title => i = j
           /\ \A i \in 1..Len(allNews.items) :
                \A k \in 1..Len(SucceededItems(1)) :
                  LET kept == allNews.items[i]
                      item == SucceededItems(1)[k]
                  IN  (/\ item.title = kept.title
                       /\ IsValidDate(item.pubDate)
                       /\ IsValidDate(kept.pubDate))
                          => item.pubDate.ts <= kept.pubDate.ts

\* C8: after a run that fetched, allNews is ordered by publish date,
\* newest first: no article stands before a newer one.
C8_SortedNewestFirst ==
    Aggregated
        => \A i, j \in 1..Len(allNews.items) :
             (/\ i < j
              /\ IsValidDate(allNews.items[i].pubDate)
              /\ IsValidDate(allNews.items[j].pubDate))
                 => allNews.items[i].pubDate.ts >= allNews.items[j].pubDate.ts

\* C9: categorizeArticle returns 'llm' when an LLM keyword occurs in the
\* lower-cased title + ' ' + description, otherwise 'vision' when a vision
\* keyword occurs, otherwise 'ethics' when an ethics keyword occurs, and
\* 'ml' in every other case.
C9_CategoryPrecedence ==
    pc = "returned"
        => LET content ==
                   toLowerCase(args.title \o <<" ">> \o args.description)
               hasLLM == \E k \in LLM_KEYWORDS : includes(content, k)
               hasVision == \E k \in VISION_KEYWORDS : includes(content, k)
               hasEthics == \E k \in ETHICS_KEYWORDS : includes(content, k)
           IN  /\ hasLLM => ret = "llm"
               /\ (~hasLLM /\ hasVision) => ret = "vision"
               /\ (~hasLLM /\ ~hasVision /\ hasEthics) => ret = "ethics"
               /\ (~hasLLM /\ ~hasVision /\ ~hasEthics) => ret = "ml"

C9_Witness ==
    /\ pc = "returned"
    /\ ret = "llm"
    /\ LET content == toLowerCase(args.title \o <<" ">> \o args.description)
       IN  /\ \E k \in LLM_KEYWORDS : includes(content, k)
           /\ \E k \in VISION_KEYWORDS : includes(content, k)
           /\ \E k \in ETHICS_KEYWORDS : includes(content, k)

\* The article passes the category filter and the search of the input box.
Passes(article, filter, input) ==
    /\ filter = "all" \/ article.category = filter
    /\ \/ input = <<>>
       \/ includes(toLowerCase(article.title), toLowerCase(input))
       \/ includes(toLowerCase(article.description), toLowerCase(input))

\* The cards are the first page * NEWS_PER_PAGE passing articles of news,
\* in the order of news.
ShowsFirstMatches(cards, news, filter, input, page) ==
    LET passing == { i \in 1..Len(news) : Passes(news[i], filter, input) }
        limit == page * NEWS_PER_PAGE
    IN  /\ Len(cards) =
             IF Cardinality(passing) < limit THEN Cardinality(passing)
             ELSE limit
        /\ \A k \in 1..Len(cards) :
             \E i \in passing :
               /\ Cardinality({ j \in passing : j <= i }) = k
               /\ cards[k] = news[i]

\* C10: every execution of displayNews (every step but an edit of the
\* input box) leaves in the grid the articles of allNews that have the
\* active category and contain the search term, in the order of allNews,
\* up to the first currentPage * NEWS_PER_PAGE of them.
C10_GridShowsMatches ==
    [][ (searchInput' = searchInput /\ allNews'.isArray)
          => ShowsFirstMatches(gridCards', allNews'.items, currentFilter',
                               searchInput', currentPage') ]_vars

C10_Witness ==
    /\ currentFilter = "vision"
    /\ searchInput = TermCamera
    /\ gridVisible
    /\ Len(gridCards) > 0
    /\ displayedNews = Arr(gridCards)
    /\ \E i \in 1..Len(allNews.items) :
         /\ allNews.items[i].category = "vision"
         /\ ~Passes(allNews.items[i], "vision", TermCamera)
    /\ \E i \in 1..Len(allNews.items) :
         /\ allNews.items[i].category # "vision"
         /\ Passes(allNews.items[i], "all", TermCamera)

\* The number of articles of allNews that pass the active category and the
\* search of the input box.
FilteredCount ==
    Cardinality({ i \in 1..Len(allNews.items) :
                    Passes(allNews.items[i], currentFilter, searchInput) })

Min(a, b) == IF a < b THEN a ELSE b

\* C11: every execution of displayNews (every step but an edit of the
\* input box) leaves min(currentPage * NEWS_PER_PAGE, filtered count)
\* articles in the grid, and loadMoreNews raises currentPage by one: after k
\* calls the grid holds min((k + 1) * NEWS_PER_PAGE, filtered count).
C11_VisibleCount ==
    [][ /\ (searchInput' = searchInput /\ allNews'.isArray)
            => Len(gridCards') =
                 Min(currentPage' * NEWS_PER_PAGE, FilteredCount')
        /\ (currentPage' # currentPage /\ currentPage' # 1)
            => currentPage' = currentPage + 1 ]_vars

C11_Witness ==
    /\ FilteredCount = MaxStored
    /\ currentPage = 4
    /\ Len(gridCards) = MaxStored
    /\ ~loadMoreVisible

\* C12: every step that changes the active category, and every execution
\* of filterNews or searchNews, leaves currentPage at 1 and at most
\* NEWS_PER_PAGE articles in the grid, whatever the page was before.
C12_PageResetOnFilterOrSearch ==
    [][ (\/ currentFilter' # currentFilter
         \/ \E category \in FilterButtons : filterNews(category)
         \/ searchNews)
            => /\ currentPage' = 1
               /\ Len(gridCards') <= NEWS_PER_PAGE ]_vars

C12_Witness ==
    /\ currentPage = 1
    /\ currentFilter = "llm"
    /\ searchInput = TermGpt
    /\ FilteredCount > NEWS_PER_PAGE
    /\ Len(gridCards) = NEWS_PER_PAGE
    /\ loadMoreVisible

\* C13: every execution of displayNews (every step but an edit of the
\* input box) leaves the load-more control visible exactly when fewer
\* articles are in the grid than pass the category and search filters.
C13_LoadMoreIffRemaining ==
    [][ (searchInput' = searchInput /\ allNews'.isArray)
          => (loadMoreVisible' <=> Len(gridCards') < FilteredCount') ]_vars

C13_Witness ==
    /\ loadMoreVisible
    /\ searchInput = TermGpt
    /\ currentFilter = "all"
    /\ Len(gridCards) = NEWS_PER_PAGE
    /\ FilteredCount > NEWS_PER_PAGE
    /\ FilteredCount < Len(allNews.items)

\* new URL(url).protocol is http: or https:
SafeScheme(url) == url.protocol \in {"http:", "https:"}

\* C14 as stated: the article normalization builds has a link of scheme
\* http or https, and an item link of another scheme, or one that is no
\* valid URL, is replaced by the placeholder.
C14_NormalizedLinkIsSafe ==
    pc = "returned"
        => /\ SafeScheme(ret.link)
           /\ ~SafeScheme(args.link) => ret.link = PLACEHOLDER_IMAGE

\* C14, amended: normalization keeps the link of the item as it is ('#'
\* when the item has none); the scheme is checked where the link is used:
\* sanitizeURL of the article's link has scheme http or https, and is the
\* placeholder when the item's link has another scheme or is no valid URL.
C14_LinkKeptAndCheckedOnUse ==
    pc = "returned"
        => /\ ret.link = (IF args.link.text # "" THEN args.link ELSE HashUrl)
           /\ SafeScheme(sanitizeURL(ret.link))
           /\ ~SafeScheme(args.link)
                 => sanitizeURL(ret.link) = PLACEHOLDER_IMAGE

C14_Witness ==
    /\ pc = "returned"
    /\ args.link = ScriptLink
    /\ ret.link = ScriptLink
    /\ sanitizeURL(ret.link) = PLACEHOLDER_IMAGE

\* C15: every URL displayNews and openArticleModal put into the page (the
\* src of a card image, the href of a card anchor, the src of the modal
\* image, the href of the modal link) has scheme http or https, for
\* articles that came from the feeds and from the cache alike.
C15_RenderedUrlsAreSafe ==
    /\ \A i \in 1..Len(gridCards) :
         /\ SafeScheme(RenderCard(gridCards[i]).src)
         /\ SafeScheme(RenderCard(gridCards[i]).href)
    /\ \A k \in 1..Len(modalView.image) : SafeScheme(modalView.image[k].src)
    /\ modalView # EmptyModal => SafeScheme(modalView.link)

C15_Witness ==
    /\ modalOpen
    /\ \E i \in 1..Len(gridCards) :
         /\ gridCards[i].link = ScriptLink
         /\ gridCards[i].image = ScriptLink
         /\ modalView = ModalOf(gridCards[i], clock)
    /\ modalView.link = PLACEHOLDER_IMAGE
    /\ modalView.image[1].src = PLACEHOLDER_IMAGE

\* The modal elements hold one article, and nothing else.
ShowsOneArticle(view) ==
    /\ Len(view.meta) = 2
    /\ Len(view.image) = 1
    /\ Len(view.text) = 1
    /\ view.image[1].alt = view.title
    /\ view.meta[1].source = view.text[1].source

\* C18: a click on a card opens the modal with every element set from the
\* article of that card and nothing of an article shown before; a click on
\* the close button or on the modal outside its content closes it; a click
\* in the content leaves it open; nothing else opens, closes or changes
\* the modal, and while open it shows one article.
C18_ModalOpensAndCloses ==
    [][ /\ \A i \in 1..MaxModalItems :
             openArticleModal(i)
                 => /\ modalOpen'
                    /\ modalView' = ModalOf(gridCards[i], clock)
        /\ ModalClick("closeBtn") => ~modalOpen'
        /\ ModalClick("backdrop") => ~modalOpen'
        /\ ModalClick("content") => modalOpen'
        /\ (modalOpen' # modalOpen \/ modalView' # modalView)
              => \/ \E i \in 1..MaxModalItems : openArticleModal(i)
                 \/ \E target \in ModalTargets : ModalClick(target)
        /\ modalOpen' => ShowsOneArticle(modalView') ]_vars

\* the modal was opened on one article and then on another
C18_Witness ==
    /\ modalOpen
    /\ Len(gridCards) = 2
    /\ modalView = ModalOf(gridCards[2], clock)
    /\ modalView.title = TitleCamera
    /\ modalView.link = PLACEHOLDER_IMAGE
    /\ gridCards[1].link = FeedLink

\* C16: every article normalization builds has a non-empty title,
\* description, link and source, and a category of the four.
C16_ArticleFieldsNonEmpty ==
    pc = "returned"
        => /\ ret.title # <<>>
           /\ ret.description # <<>>
           /\ ret.link.text # ""
           /\ ret.source # <<>>
           /\ ret.category \in Categories

\* C17: the article built of an item whose pubDate is absent or cannot be
\* parsed carries the time of the run as its publish date.
C17_MissingDateBecomesNow ==
    pc = "returned"
        => (~IsValidDate(args.pubDate) => ret.pubDate = toISOString(clock))

\* C19: in a run that fetches, allNews and the stored cache entry change
\* only in the continuation of Promise.all, with every request settled:
\* every step that ends with the run at the await of line 130, the start of
\* the run included, leaves them as they were.
C19_RebuildAfterAllSettle ==
    [][ /\ pc' = "awaiting"
            => /\ allNews' = allNews
               /\ cacheData' = cacheData
               /\ cacheTime' = cacheTime
        /\ (/\ pc = "awaiting"
            /\ \/ allNews' # allNews
               \/ cacheData' # cacheData
               \/ cacheTime' # cacheTime)
            => \A f \in Feeds : results[f].settled ]_vars

\* C20: at most one call of fetchAINews is suspended at its await, and a
\* call starts only in the DOMContentLoaded handler or by a click on the
\* retry button.
C20_OneRunInFlight ==
    [][ /\ inFlight' <= 1
        /\ (inFlight' > inFlight \/ requests' # requests)
              => (DOMContentLoaded \/ Retry) ]_vars

\* a run started by the retry button is in flight
C20_Witness ==
    /\ pc = "awaiting"
    /\ inFlight = 1
    /\ ~errorVisible
    /\ startData = NoData
    /\ allNews.isArray /\ Len(allNews.items) > 0
    /\ \E f \in Feeds : results[f].settled
    /\ \E f \in Feeds : ~results[f].settled

\* The collection a run ends with when its requests settled to rs: the
\* normalized items of the usable results in the order of RSS_FEEDS,
\* sorted and deduplicated (left as collected when a result is null).
FinalOf(rs, t) ==
    LET stop == FirstThrowing(rs)
        collected == Collect(rs, 1, stop - 1, t)
    IN  IF stop <= Len(RSS_FEEDS) THEN collected
        ELSE RemoveDuplicates(StableSort(collected))

\* C21: the collection a run ends with, and the collection it stores, are
\* determined by what each feed answered; the order in which the requests
\* settled has no part in them.
C21_CompletionOrderIrrelevant ==
    [][ AllSettled /\ pc' = "idle"
          => /\ allNews' = Arr(FinalOf(results, clock))
             /\ cacheData' # cacheData
                  => cacheData' = stringify(Arr(FinalOf(results, clock)))
             /\ cacheTime' # cacheTime
                  => /\ cacheTime' = TimeString(now)
                     /\ cacheData' = stringify(Arr(FinalOf(results, clock)))
       ]_vars

\* a run whose last feed answered first has ended and stored two articles
\* of the same date
C21_Witness ==
    /\ pc = "idle"
    /\ caught = "none"
    /\ Len(arrival) = Len(RSS_FEEDS)
    /\ arrival[1] = Len(RSS_FEEDS)
    /\ Len(allNews.items) = 2
    /\ allNews.items[1].pubDate = allNews.items[2].pubDate
    /\ cacheData = stringify(allNews)
    /\ cacheTime = TimeString(now)

\* A collection no run is in the middle of building: the cache entry the
\* run loaded (line 113), or an array that sorting and deduplication leave
\* as it is (the empty list the script starts with is one).
Completed(news) ==
    \/ startData.kind = "json" /\ news = parse(startData)
    \/ /\ news.isArray
       /\ news.items \in SortOutcomes(news.items)
       /\ news.items = RemoveDuplicates(news.items)

\* C22: displayNews, called by filterNews, searchNews, loadMoreNews or at
\* the end of a run, also while requests are pending, reads an allNews that
\* is a completed collection: the initial empty list, a loaded cache or the
\* sorted and deduplicated result of a finished run.
C22_DisplayReadsCompleted ==
    [][ /\ ((\E category \in MainFilters : filterNews(category))
              \/ searchNews \/ loadMoreNews)
            => Completed(allNews)
        /\ (pc # "idle" /\ pc' = "idle" /\ gridVisible')
            => Completed(allNews') ]_vars

\* A run has ended and the widget shows its outcome.
RunEnded == pc = "idle" /\ ~loadingVisible /\ (gridVisible \/ errorVisible)

\* C23: when every request settles, every run of fetchAINews ends, with
\* the loading indicator hidden and the grid or the error state visible,
\* whatever failed; and the retry button of the error state starts a run.
C23_EveryRunEnds ==
    /\ (pc # "idle") ~> RunEnded
    /\ [](pc = "idle" => RunEnded)
    /\ []((pc = "idle" /\ errorVisible) => ENABLED Retry)
    /\ [][Retry => (pc' = "awaiting" \/ RunEnded')]_vars

\* a run started by the retry button, after a run that stored the
\* collection but not its time, has failed in its turn and ended in the
\* error state
C23_Witness ==
    /\ RunEnded
    /\ errorVisible
    /\ caught = "result"
    /\ startData.kind = "json"
    /\ startTime = NoTime

\* A step of filterNews, searchNews, loadMoreNews, openArticleModal or
\* closeArticleModal.
HandlerStep ==
    \/ \E category \in FilterButtons : filterNews(category)
    \/ searchNews
    \/ loadMoreNews
    \/ \E i \in 1..Len(gridCards) : openArticleModal(i)
    \/ closeArticleModal

\* C24: filterNews, searchNews, loadMoreNews, openArticleModal and
\* closeArticleModal call fetch() for no feed and leave allNews and both
\* items of the cache entry as they are; requests for the feeds are issued
\* only by the run the page load starts and the runs the retry button
\* starts.
C24_HandlersFetchNothing ==
    [][ /\ HandlerStep
            => /\ requests' = requests
               /\ inFlight' = inFlight
               /\ results' = results
               /\ allNews' = allNews
               /\ cacheData' = cacheData
               /\ cacheTime' = cacheTime
        /\ (inFlight' # inFlight \/ requests' # requests \/ pc' = "awaiting")
            => (DOMContentLoaded \/ Retry \/ pc = "awaiting") ]_vars

\* on a loaded cache the user has opened an article and closed it again,
\* then searched and filtered the grid, and no request was issued
C24_Witness ==
    /\ pc = "idle"
    /\ searchInput # <<>>
    /\ currentFilter # "all"
    /\ gridVisible
    /\ Len(displayedNews.items) < Len(allNews.items)
    /\ ~modalOpen
    /\ modalView # EmptyModal
    /\ requests = NoRequests
    /\ inFlight = 0
    /\ allNews = parse(cacheData)
    /\ cacheData = startData
    /\ cacheTime = startTime

\* C25: the cache entry is never partially updated.  Whenever one of its
\* two items changes, both are written, by one run: the collection that
\* run built and the time that run read at its start.  A run whose write
\* fails changes neither.
C25_CacheEntryWhole ==
    [][ (cacheData' # cacheData \/ cacheTime' # cacheTime)
          => /\ cacheData' = stringify(allNews')
             /\ cacheTime' = TimeString(now) ]_vars

\* C26: at most one of the loading indicator, the error state and the
\* news grid is visible; the grid is visible neither while a run is in
\* flight nor while the error state is shown.
C26_OneStateVisible ==
    /\ ~(loadingVisible /\ errorVisible)
    /\ ~(loadingVisible /\ gridVisible)
    /\ ~(errorVisible /\ gridVisible)
    /\ gridVisible => pc # "awaiting"

\* The articles of news that carry the placeholder title.
UntitledIn(news) ==
    { i \in 1..Len(news.items) : news.items[i].title = Untitled }

\* C27: after a run allNews holds at most one article titled 'Untitled',
\* however many items without a title the feeds returned.
C27_OneUntitledArticle ==
    pc = "idle" => Cardinality(UntitledIn(allNews)) <= 1

====
